---------------------------- MODULE Spec2Model ----------------------------
(***************************************************************************)
(* A model of i2c_send_sequence() and count_segments() of lsquaredc.c.     *)
(*                                                                         *)
(* One call of i2c_send_sequence is followed statement by statement: the   *)
(* declarations with their initialisers (count_segments and both mallocs), *)
(* the two validation tests, the set-up of the first transaction, one      *)
(* action per iteration of the while loop, the ioctl, the two frees and    *)
(* the return.  Indices are the C indices: Tok(k) is sequence[k].          *)
(*                                                                         *)
(* Pointers are offsets: a pointer into msg_buf is the number of bytes     *)
(* from msg_buf, a pointer into the caller's receive buffer the number of  *)
(* bytes from the received_data argument.  Memory that malloc returned and *)
(* the code has not written yet holds UninitByte / UninitMsg.              *)
(***************************************************************************)
EXTENDS Integers, Sequences, FiniteSets

(* ---------------------------------------------------------------------- *)
(* Constants of the program and of the interfaces it is compiled against.  *)
(* ---------------------------------------------------------------------- *)

\* lsquaredc.h (not part of the sources at hand): the two out-of-band
\* tokens, above the 8-bit data range.
I2C_RESTART == 256
I2C_READ == 512

\* linux/i2c-dev.h; the doc comment of i2c_send_sequence states the value.
I2C_RDRW_IOCTL_MAX_MSGS == 42

\* linux/i2c.h: the read flag of struct i2c_msg.
I2C_M_RD == 1

WRITING == 0
READING == 1

(* ---------------------------------------------------------------------- *)
(* Bounds of the model.                                                    *)
(* ---------------------------------------------------------------------- *)

\* Every token sequence of length 0..MaxLen over Tokens is an input.
MaxLen == 5

\* Long well-formed sequences have 1..MidRestarts restarts, and
\* (I2C_RDRW_IOCTL_MAX_MSGS - 1 - Slack)..(I2C_RDRW_IOCTL_MAX_MSGS + Slack).
MidRestarts == 3
Slack == 1

\* A write address, a read address, a data byte and the two markers.
Tokens == {112, 113, 138, I2C_RESTART, I2C_READ}

ShortSeqs == UNION {[1..n -> Tokens] : n \in 0..MaxLen}

\* The three sequences main() of example.c sends.
ExampleSeqs ==
  { <<112, 128, 3>>, <<112, 129, 3>>, <<112, 138, I2C_RESTART, 113, I2C_READ>> }

\* A write of one byte followed by n restarts, alternately a one-byte read
\* and a one-byte write.
RECURSIVE Pattern(_)
Pattern(n) ==
  IF n = 0 THEN <<112, 138>>
  ELSE Pattern(n - 1) \o (IF n % 2 = 1 THEN <<I2C_RESTART, 113, I2C_READ>>
                                       ELSE <<I2C_RESTART, 112, 138>>)

PatternCounts ==
  (1..MidRestarts) \cup
  ((I2C_RDRW_IOCTL_MAX_MSGS - 1 - Slack)..(I2C_RDRW_IOCTL_MAX_MSGS + Slack))

LongSeqs == {Pattern(n) : n \in PatternCounts}

Inputs == ShortSeqs \cup ExampleSeqs \cup LongSeqs

(* ---------------------------------------------------------------------- *)
(* State.                                                                  *)
(* ---------------------------------------------------------------------- *)

VARIABLES
  pc,                  \* position in i2c_send_sequence
  sequence,            \* the caller's token array
  sequence_length,     \* its length, as passed
  number_of_segments,  \* result of count_segments
  messages,            \* the malloc'ed array of struct i2c_msg (1-based here)
  current_message,     \* current_message - messages
  msg_buf,             \* the malloc'ed scratch bytes, offsets 0..size-1
  msg_cur_buf_ptr,     \* msg_cur_buf_ptr - msg_buf
  msg_cur_buf_base,    \* msg_cur_buf_base - msg_buf
  msg_cur_buf_size,
  address,             \* uint8_t
  rw,                  \* uint8_t
  i,
  received_data,       \* the parameter, as an offset from its value at entry
  result,
  nmsgs,               \* message_sequence.nmsgs
  mallocs,             \* number of malloc calls made
  freed_msg_buf,       \* number of free(msg_buf) calls made
  freed_messages,      \* number of free(messages) calls made
  ioctl_calls,         \* number of I2C_RDWR ioctl calls made
  addr_at,             \* history: index of the token `address` was read from
  hist                 \* history: per emitted message, where it was emitted

vars == << pc, sequence, sequence_length, number_of_segments, messages,
           current_message, msg_buf, msg_cur_buf_ptr, msg_cur_buf_base,
           msg_cur_buf_size, address, rw, i, received_data, result, nmsgs,
           mallocs, freed_msg_buf, freed_messages, ioctl_calls, addr_at, hist >>

Tok(k) == sequence[k + 1]

\* The value of a local before its first assignment.
Unset == -1

UninitByte == -1

UninitMsg ==
  [addr |-> -1, flags |-> -1, len |-> -1, buf |-> [region |-> "uninit", off |-> 0]]

(* ---------------------------------------------------------------------- *)
(* count_segments.                                                         *)
(* ---------------------------------------------------------------------- *)

\* The loop of lines 73-75 adds one for every index 1..sequence_length-1 that
\* holds I2C_RESTART; index 0 is not looked at.
count_segments_skip_first(seq, len) ==
  1 + Cardinality({k \in 2..(len - 1) : seq[k + 1] = I2C_RESTART})

count_segments(seq, len) ==
  1 + Cardinality({k \in 1..(len - 1) : seq[k + 1] = I2C_RESTART})

(* ---------------------------------------------------------------------- *)
(* The expressions of i2c_send_sequence.                                   *)
(* ---------------------------------------------------------------------- *)

\* A uint16_t stored into a uint8_t.
ToUint8_keep(t) == t

ToUint8(t) == t % 256

\* A uint32_t stored into the __u16 len of struct i2c_msg.
ToUint16(n) == n % 65536

TooShort_off_by_one(len) == len < 1

TooShort(len) == len < 2

TooManySegments_absent(n) == FALSE

TooManySegments(n) == n > I2C_RDRW_IOCTL_MAX_MSGS

\* address & 1
Direction(a) == a % 2

LinuxAddr_noshift(a) == a

\* address >> 1
LinuxAddr(a) == a \div 2

\* rw == WRITING, the test that guards the store into msg_buf
StoresByte_always(d) == TRUE

StoresByte(d) == d = WRITING

\* sequence[i] == I2C_RESTART || i == sequence_length - 1
SegmentComplete(k) == Tok(k) = I2C_RESTART \/ k = sequence_length - 1

AnotherTransaction_one_ahead(k) == k < sequence_length - 1

\* i < sequence_length - 2
AnotherTransaction(k) == k < sequence_length - 2

AdvanceReceived_always(d, rd, size) == rd + size

\* if(rw == READING) received_data += msg_cur_buf_size
AdvanceReceived(d, rd, size) == IF d = READING THEN rd + size ELSE rd

\* the struct i2c_msg the loop fills in
Message(a, d, size, rd, base) ==
  [ addr  |-> LinuxAddr(a),
    flags |-> IF d # 0 THEN I2C_M_RD ELSE 0,
    len   |-> ToUint16(size),
    buf   |-> IF d # 0 THEN [region |-> "received_data", off |-> rd]
                       ELSE [region |-> "msg_buf", off |-> base] ]

(* ---------------------------------------------------------------------- *)
(* Initial state: a caller about to call with one of the inputs.           *)
(* ---------------------------------------------------------------------- *)

Init ==
  /\ pc = "entry"
  /\ sequence \in Inputs
  /\ sequence_length = Len(sequence)
  /\ number_of_segments = Unset
  /\ messages = << >>
  /\ current_message = 0
  /\ msg_buf = << >>
  /\ msg_cur_buf_ptr = 0
  /\ msg_cur_buf_base = Unset
  /\ msg_cur_buf_size = Unset
  /\ address = Unset
  /\ rw = Unset
  /\ i = Unset
  /\ received_data = 0
  /\ result = Unset
  /\ nmsgs = Unset
  /\ mallocs = 0
  /\ freed_msg_buf = 0
  /\ freed_messages = 0
  /\ ioctl_calls = 0
  /\ addr_at = Unset
  /\ hist = << >>

(* ---------------------------------------------------------------------- *)
(* Actions.                                                                *)
(* ---------------------------------------------------------------------- *)

\* Lines 100-114: the declarations, whose initialisers count the segments
\* and allocate both buffers before anything is validated.
Declarations ==
  /\ pc = "entry"
  /\ number_of_segments' = count_segments(sequence, sequence_length)
  /\ messages' = [j \in 1..number_of_segments' |-> UninitMsg]
  /\ current_message' = 0
  /\ msg_buf' = [j \in 1..sequence_length |-> UninitByte]
  /\ msg_cur_buf_ptr' = 0
  /\ mallocs' = mallocs + 2
  /\ result' = -1
  /\ pc' = "validate"
  /\ UNCHANGED << sequence, sequence_length, msg_cur_buf_base, msg_cur_buf_size,
                  address, rw, i, received_data, nmsgs, freed_msg_buf,
                  freed_messages, ioctl_calls, addr_at, hist >>

\* Lines 116-117, returning at once instead of going to the cleanup label.
Validate_returns_early ==
  /\ pc = "validate"
  /\ pc' = IF TooShort(sequence_length) \/ TooManySegments(number_of_segments)
             THEN "return" ELSE "setup"
  /\ UNCHANGED << sequence, sequence_length, number_of_segments, messages,
                  current_message, msg_buf, msg_cur_buf_ptr, msg_cur_buf_base,
                  msg_cur_buf_size, address, rw, i, received_data, result,
                  nmsgs, mallocs, freed_msg_buf, freed_messages, ioctl_calls,
                  addr_at, hist >>

\* Lines 116-117.
Validate ==
  /\ pc = "validate"
  /\ pc' = IF TooShort(sequence_length) \/ TooManySegments(number_of_segments)
             THEN "cleanup" ELSE "setup"
  /\ UNCHANGED << sequence, sequence_length, number_of_segments, messages,
                  current_message, msg_buf, msg_cur_buf_ptr, msg_cur_buf_base,
                  msg_cur_buf_size, address, rw, i, received_data, result,
                  nmsgs, mallocs, freed_msg_buf, freed_messages, ioctl_calls,
                  addr_at, hist >>

\* Lines 119-123.
Setup ==
  /\ pc = "setup"
  /\ address' = ToUint8(Tok(0))
  /\ rw' = Direction(address')
  /\ msg_cur_buf_size' = 0
  /\ msg_cur_buf_base' = msg_cur_buf_ptr
  /\ i' = 1
  /\ addr_at' = 0
  /\ pc' = "loop"
  /\ UNCHANGED << sequence, sequence_length, number_of_segments, messages,
                  current_message, msg_buf, msg_cur_buf_ptr, received_data,
                  result, nmsgs, mallocs, freed_msg_buf, freed_messages,
                  ioctl_calls, hist >>

\* Lines 125-153: one iteration of the while loop.
LoopStep ==
  /\ pc = "loop"
  /\ i < sequence_length
  /\ LET data   == Tok(i) # I2C_RESTART
         stores == data /\ StoresByte(rw)
         buf1   == IF stores
                     THEN [msg_buf EXCEPT ![msg_cur_buf_ptr + 1] = ToUint8(Tok(i))]
                     ELSE msg_buf
         ptr1   == IF stores THEN msg_cur_buf_ptr + 1 ELSE msg_cur_buf_ptr
         size1  == IF data THEN msg_cur_buf_size + 1 ELSE msg_cur_buf_size
     IN /\ msg_buf' = buf1
        /\ msg_cur_buf_ptr' = ptr1
        /\ IF SegmentComplete(i)
             THEN /\ messages' =
                       [messages EXCEPT ![current_message + 1] =
                          Message(address, rw, size1, received_data, msg_cur_buf_base)]
                  /\ current_message' = current_message + 1
                  /\ hist' = Append(hist, [at |-> i, addr_at |-> addr_at,
                                           base |-> msg_cur_buf_base, ptr |-> ptr1])
                  /\ received_data' = AdvanceReceived(rw, received_data, size1)
                  /\ IF AnotherTransaction(i)
                       THEN /\ address' = ToUint8(Tok(i + 1))
                            /\ rw' = Direction(address')
                            /\ msg_cur_buf_size' = 0
                            /\ msg_cur_buf_base' = ptr1
                            /\ addr_at' = i + 1
                            /\ i' = i + 2
                       ELSE /\ msg_cur_buf_size' = size1
                            /\ i' = i + 1
                            /\ UNCHANGED << address, rw, msg_cur_buf_base, addr_at >>
             ELSE /\ msg_cur_buf_size' = size1
                  /\ i' = i + 1
                  /\ UNCHANGED << messages, current_message, hist, received_data,
                                  address, rw, msg_cur_buf_base, addr_at >>
  /\ UNCHANGED << pc, sequence, sequence_length, number_of_segments, result,
                  nmsgs, mallocs, freed_msg_buf, freed_messages, ioctl_calls >>

\* Lines 125, 155-156: the loop condition fails; the transport request is built.
LoopExit ==
  /\ pc = "loop"
  /\ ~(i < sequence_length)
  /\ nmsgs' = number_of_segments
  /\ pc' = "ioctl"
  /\ UNCHANGED << sequence, sequence_length, number_of_segments, messages,
                  current_message, msg_buf, msg_cur_buf_ptr, msg_cur_buf_base,
                  msg_cur_buf_size, address, rw, i, received_data, result,
                  mallocs, freed_msg_buf, freed_messages, ioctl_calls,
                  addr_at, hist >>

\* Line 158: the blocking I2C_RDWR ioctl.  It returns the number of messages
\* transferred, or a negative value.
Ioctl ==
  /\ pc = "ioctl"
  /\ \E r \in {-1, nmsgs} : result' = r
  /\ ioctl_calls' = ioctl_calls + 1
  /\ pc' = "cleanup"
  /\ UNCHANGED << sequence, sequence_length, number_of_segments, messages,
                  current_message, msg_buf, msg_cur_buf_ptr, msg_cur_buf_base,
                  msg_cur_buf_size, address, rw, i, received_data, nmsgs,
                  mallocs, freed_msg_buf, freed_messages, addr_at, hist >>

\* Line 161.
FreeMsgBuf ==
  /\ pc = "cleanup"
  /\ freed_msg_buf' = freed_msg_buf + 1
  /\ pc' = "free_messages"
  /\ UNCHANGED << sequence, sequence_length, number_of_segments, messages,
                  current_message, msg_buf, msg_cur_buf_ptr, msg_cur_buf_base,
                  msg_cur_buf_size, address, rw, i, received_data, result,
                  nmsgs, mallocs, freed_messages, ioctl_calls, addr_at, hist >>

\* Line 162.
FreeMessages ==
  /\ pc = "free_messages"
  /\ freed_messages' = freed_messages + 1
  /\ pc' = "return"
  /\ UNCHANGED << sequence, sequence_length, number_of_segments, messages,
                  current_message, msg_buf, msg_cur_buf_ptr, msg_cur_buf_base,
                  msg_cur_buf_size, address, rw, i, received_data, result,
                  nmsgs, mallocs, freed_msg_buf, ioctl_calls, addr_at, hist >>

\* Line 164.
Return ==
  /\ pc = "return"
  /\ pc' = "done"
  /\ UNCHANGED << sequence, sequence_length, number_of_segments, messages,
                  current_message, msg_buf, msg_cur_buf_ptr, msg_cur_buf_base,
                  msg_cur_buf_size, address, rw, i, received_data, result,
                  nmsgs, mallocs, freed_msg_buf, freed_messages, ioctl_calls,
                  addr_at, hist >>

Next ==
  \/ Declarations
  \/ Validate
  \/ Setup
  \/ LoopStep
  \/ LoopExit
  \/ Ioctl
  \/ FreeMsgBuf
  \/ FreeMessages
  \/ Return

Spec == Init /\ [][Next]_vars

(* ---------------------------------------------------------------------- *)
(* Vocabulary of the properties.                                           *)
(* ---------------------------------------------------------------------- *)

\* The main pass is over and the request is about to be handed to ioctl.
PassDone == pc = "ioctl"

\* The indices that hold I2C_RESTART.
RestartsOf(seq) == {k \in 0..(Len(seq) - 1) : seq[k + 1] = I2C_RESTART}

\* The j-th restart, in sequence order.
NthRestart(seq, j) ==
  CHOOSE k \in RestartsOf(seq) :
    Cardinality({r \in RestartsOf(seq) : r < k}) = j - 1

\* Token 0 is an address, every RESTART is followed by an address token and
\* at least one further token that is not a RESTART, and the last token is
\* not a RESTART.
WellFormed(seq) ==
  /\ Len(seq) >= 2
  /\ seq[1] # I2C_RESTART
  /\ seq[Len(seq)] # I2C_RESTART
  /\ \A k \in RestartsOf(seq) :
       /\ k + 2 <= Len(seq) - 1
       /\ seq[k + 2] # I2C_RESTART
       /\ seq[k + 3] # I2C_RESTART

\* For a well-formed sequence: the index of the j-th address token and of the
\* last token of the j-th segment.
AddrIndex(seq, j) == IF j = 1 THEN 0 ELSE NthRestart(seq, j - 1) + 1

LastIndex(seq, j) ==
  IF j <= Cardinality(RestartsOf(seq)) THEN NthRestart(seq, j) - 1
                                      ELSE Len(seq) - 1

\* The bytes a message's buf points at, when it points into msg_buf.
BufBytes(m) == [b \in 1..m.len |-> msg_buf[m.buf.off + b]]

\* Sum of the lengths of the READ messages among the first n.
RECURSIVE ReadLenSum(_)
ReadLenSum(n) ==
  IF n = 0 THEN 0
  ELSE ReadLenSum(n - 1) + (IF messages[n].flags = I2C_M_RD THEN messages[n].len ELSE 0)

\* Number of indices a..b that hold something other than I2C_RESTART.
DataTokens(a, b) == Cardinality({k \in a..b : Tok(k) # I2C_RESTART})

\* The index at which the boundary before message j closed (0: the start).
PrevClose(j) == IF j = 1 THEN 0 ELSE hist[j - 1].at

Emitted == 1..Len(hist)

(* ---------------------------------------------------------------------- *)
(* C1                                                                      *)
(* ---------------------------------------------------------------------- *)

\* C1: when the main pass is over, the number of messages it filled in
\* equals count_segments' result, which is the nmsgs handed to the transport.
C1_EmittedEqualsCounted ==
  PassDone =>
    /\ nmsgs = number_of_segments
    /\ current_message = number_of_segments

(* ---------------------------------------------------------------------- *)
(* C2                                                                      *)
(* ---------------------------------------------------------------------- *)

\* C2 as stated: a call with sequence_length < 2 fails with the error result,
\* never invokes the transport and performs no allocation.
C2_NoAllocation ==
  sequence_length < 2 =>
    /\ mallocs = 0
    /\ ioctl_calls = 0
    /\ (pc = "done" => result = -1)

\* C2 as amended: a call with sequence_length < 2 fails with the error result
\* (-1), never runs the main pass and never invokes the transport; the two
\* allocations its declarations made are each released once before it returns.
C2_ShortSequenceFails ==
  sequence_length < 2 =>
    /\ pc \notin {"setup", "loop", "ioctl"}
    /\ ioctl_calls = 0
    /\ current_message = 0
    /\ (pc = "done" =>
          /\ result = -1
          /\ mallocs = 2
          /\ freed_msg_buf = 1
          /\ freed_messages = 1)

C2_Witness == pc = "done" /\ sequence_length = 1 /\ mallocs = 2

(* ---------------------------------------------------------------------- *)
(* C3                                                                      *)
(* ---------------------------------------------------------------------- *)

\* C3: a sequence of length >= 2 with more than I2C_RDRW_IOCTL_MAX_MSGS
\* RESTART tokens fails with the error result and the transport is not
\* invoked; the transport is invoked only when the counted number of
\* segments is at most I2C_RDRW_IOCTL_MAX_MSGS.
C3_TooManySegmentsFails ==
  /\ (sequence_length >= 2 /\
      Cardinality(RestartsOf(sequence)) > I2C_RDRW_IOCTL_MAX_MSGS) =>
        /\ pc \notin {"setup", "loop", "ioctl"}
        /\ ioctl_calls = 0
        /\ (pc = "done" => result = -1)
  /\ (pc = "ioctl" \/ ioctl_calls > 0) =>
        /\ number_of_segments <= I2C_RDRW_IOCTL_MAX_MSGS
        /\ nmsgs \in {Unset, number_of_segments}

C3_Witness ==
  /\ pc = "done"
  /\ sequence_length >= 2
  /\ Cardinality(RestartsOf(sequence)) > I2C_RDRW_IOCTL_MAX_MSGS

(* ---------------------------------------------------------------------- *)
(* C4                                                                      *)
(* ---------------------------------------------------------------------- *)

\* C4: for a well-formed sequence with k RESTARTs the pass emits k+1 messages
\* in sequence order; the j-th has the direction of the j-th address token,
\* a length equal to the number of tokens between that address and the next
\* RESTART (or the end) and, if it is a write, a buffer that holds the low
\* bytes of those tokens in order.
C4_WellFormedSegments ==
  (PassDone /\ WellFormed(sequence)) =>
    LET k == Cardinality(RestartsOf(sequence))
    IN /\ current_message = k + 1
       /\ nmsgs = k + 1
       /\ \A j \in 1..(k + 1) :
            LET a == AddrIndex(sequence, j)
                e == LastIndex(sequence, j)
                m == messages[j]
            IN /\ m.flags = (IF Tok(a) % 2 = 1 THEN I2C_M_RD ELSE 0)
               /\ m.len = e - a
               /\ (Tok(a) % 2 = 0 =>
                     /\ m.buf.region = "msg_buf"
                     /\ BufBytes(m) = [b \in 1..(e - a) |-> Tok(a + b) % 256])

C4_Witness ==
  /\ PassDone
  /\ WellFormed(sequence)
  /\ Cardinality(RestartsOf(sequence)) >= 1
  /\ \E j \in Emitted : messages[j].flags = I2C_M_RD /\ messages[j].len > 0
  /\ \E j \in Emitted :
       /\ messages[j].flags = 0
       /\ \E b \in 1..messages[j].len : Tok(hist[j].addr_at + b) > 255

(* ---------------------------------------------------------------------- *)
(* C5                                                                      *)
(* ---------------------------------------------------------------------- *)

\* C5: every emitted READ message points into the caller's receive buffer at
\* an offset equal to the sum of the lengths of the READ messages emitted
\* before it; WRITE messages point into msg_buf and leave the receive offset
\* alone, so the offset reached equals the sum of all READ lengths.
C5_ReadOffsets ==
  /\ \A j \in Emitted :
       IF messages[j].flags = I2C_M_RD
         THEN messages[j].buf = [region |-> "received_data", off |-> ReadLenSum(j - 1)]
         ELSE messages[j].buf.region = "msg_buf"
  /\ received_data = ReadLenSum(Len(hist))

C5_Witness ==
  \E j \in Emitted :
    /\ messages[j].flags = I2C_M_RD
    /\ messages[j].buf.off > 0
    /\ \E w \in 1..(j - 1) : messages[w].flags = 0 /\ messages[w].len > 0

(* ---------------------------------------------------------------------- *)
(* C6                                                                      *)
(* ---------------------------------------------------------------------- *)

\* C6: on every exit path msg_buf and messages are each freed exactly once
\* before the call returns, and nothing is freed before the transport call
\* has returned on the paths that make one.
C6_ReleasedOnce ==
  /\ freed_msg_buf <= 1
  /\ freed_messages <= 1
  /\ (pc = "done" => freed_msg_buf = 1 /\ freed_messages = 1)
  /\ (freed_msg_buf > 0 \/ freed_messages > 0) =>
       /\ pc \in {"free_messages", "return", "done"}
       /\ \/ ioctl_calls = 1
          \/ sequence_length < 2
          \/ number_of_segments > I2C_RDRW_IOCTL_MAX_MSGS
  /\ ioctl_calls <= 1

C6_Witness ==
  /\ pc = "done"
  /\ ioctl_calls = 1
  /\ result < 0
  /\ freed_msg_buf = 1
  /\ freed_messages = 1

(* ---------------------------------------------------------------------- *)
(* C7                                                                      *)
(* ---------------------------------------------------------------------- *)

\* C7 as stated: each emitted message's length is the number of non-RESTART
\* tokens consumed as data since the previous boundary closed, and after a
\* boundary close that is followed by more tokens the next token is the new
\* address and the new segment starts at the write cursor.
C7_LengthSinceBoundary ==
  /\ \A j \in Emitted :
       messages[j].len =
         Cardinality({k \in (PrevClose(j) + 1)..hist[j].at :
                        Tok(k) # I2C_RESTART /\ k # hist[j].addr_at})
  /\ \A j \in Emitted :
       (j > 1 /\ hist[j - 1].at < sequence_length - 1) =>
          /\ hist[j].addr_at = hist[j - 1].at + 1
          /\ hist[j].base = hist[j - 1].ptr

\* C7 as amended: each emitted message's length is the number of non-RESTART
\* tokens consumed since the address in force was taken.  After a boundary
\* close at index i with at least two more tokens (i < sequence_length - 2)
\* the next token is the new address and the length counter and the scratch
\* base are reset; after a close with fewer tokens left (a RESTART that is the
\* second-to-last token) address, direction, length counter and base are
\* kept, and the last token is counted into the same segment again.
C7_LengthSinceAddress ==
  /\ \A j \in Emitted :
       /\ messages[j].len = DataTokens(hist[j].addr_at + 1, hist[j].at)
       /\ IF j = 1
            THEN hist[j].addr_at = 0 /\ hist[j].base = 0
            ELSE IF hist[j - 1].at < sequence_length - 2
                   THEN /\ hist[j].addr_at = hist[j - 1].at + 1
                        /\ hist[j].base = hist[j - 1].ptr
                   ELSE /\ hist[j].addr_at = hist[j - 1].addr_at
                        /\ hist[j].base = hist[j - 1].base
  /\ (pc = "loop" /\ Len(hist) > 0) =>
       LET p == hist[Len(hist)]
       IN IF p.at < sequence_length - 2
            THEN /\ addr_at = p.at + 1
                 /\ address = Tok(p.at + 1) % 256
                 /\ msg_cur_buf_base = p.ptr
                 /\ msg_cur_buf_size = DataTokens(p.at + 2, i - 1)
            ELSE /\ addr_at = p.addr_at
                 /\ msg_cur_buf_base = p.base
                 /\ msg_cur_buf_size = DataTokens(p.addr_at + 1, i - 1)

C7_Witness ==
  /\ PassDone
  /\ sequence_length >= 4
  /\ Tok(sequence_length - 2) = I2C_RESTART
  /\ Tok(sequence_length - 1) # I2C_RESTART
  /\ Len(hist) >= 2
  /\ hist[Len(hist)].addr_at = hist[Len(hist) - 1].addr_at
  /\ messages[Len(hist)].len > 1

(* ---------------------------------------------------------------------- *)
(* C8                                                                      *)
(* ---------------------------------------------------------------------- *)

\* C8 as stated: every emitted message's device address is its 16-bit address
\* token shifted right by one and lies in 0..127, and the message is a READ
\* exactly when bit 0 of the address token is 1.
C8_AddressIsTokenShifted ==
  \A j \in Emitted :
    LET t == Tok(hist[j].addr_at)
    IN /\ messages[j].addr = t \div 2
       /\ messages[j].addr \in 0..127
       /\ (messages[j].flags = I2C_M_RD) = (t % 2 = 1)
       /\ (messages[j].flags = 0) = (t % 2 = 0)

\* C8 as amended: every emitted message's device address is the low 8 bits of
\* the address token in force, shifted right by one, and lies in 0..127; the
\* message is a READ exactly when bit 0 of that token is 1 and a WRITE when
\* it is 0.  The token is token 0 or the token taken after a RESTART.
C8_AddressIsLowByteShifted ==
  \A j \in Emitted :
    LET t == Tok(hist[j].addr_at)
    IN /\ messages[j].addr = (t % 256) \div 2
       /\ messages[j].addr \in 0..127
       /\ (messages[j].flags = I2C_M_RD) = (t % 2 = 1)
       /\ (messages[j].flags = 0) = (t % 2 = 0)
       /\ \/ hist[j].addr_at = 0
          \/ Tok(hist[j].addr_at - 1) = I2C_RESTART

C8_Witness ==
  /\ PassDone
  /\ \E j \in Emitted :
       /\ hist[j].addr_at > 0
       /\ Tok(hist[j].addr_at) = 113
       /\ messages[j].addr = 56
       /\ messages[j].flags = I2C_M_RD
  /\ \E j \in Emitted : Tok(hist[j].addr_at) > 255

(* ---------------------------------------------------------------------- *)
(* C9                                                                      *)
(* ---------------------------------------------------------------------- *)

\* C9: once the array is allocated, the number of messages filled in never
\* exceeds count_segments' result, the size of the array: exactly the first
\* current_message elements of the array have been written.
C9_WithinSegmentArray ==
  pc # "entry" =>
    /\ Len(messages) = number_of_segments
    /\ current_message <= Len(messages)
    /\ Len(hist) = current_message
    /\ \A j \in 1..Len(messages) : (messages[j] # UninitMsg) = (j <= current_message)

C9_Witness ==
  /\ PassDone
  /\ ~WellFormed(sequence)
  /\ current_message >= 2
  /\ current_message < number_of_segments

(* ---------------------------------------------------------------------- *)
(* C10                                                                     *)
(* ---------------------------------------------------------------------- *)

\* C10: the write cursor never goes beyond sequence_length - 1 bytes from the
\* start of msg_buf (at most one byte per loop index passed), exactly the
\* bytes below the cursor have been written, a WRITE message's base plus
\* length is within the bytes written when it was emitted, and no byte is
\* staged while a READ segment is consumed.
C10_WithinScratchBuffer ==
  pc \in {"loop", "ioctl", "cleanup", "free_messages", "return", "done"} /\ i # Unset =>
    /\ Len(msg_buf) = sequence_length
    /\ msg_cur_buf_ptr <= sequence_length - 1
    /\ msg_cur_buf_ptr <= i - 1
    /\ msg_cur_buf_ptr <= DataTokens(1, i - 1)
    /\ \A b \in 1..Len(msg_buf) : (msg_buf[b] # UninitByte) = (b <= msg_cur_buf_ptr)
    /\ \A j \in Emitted :
         /\ hist[j].ptr <= msg_cur_buf_ptr
         /\ IF messages[j].flags = 0
              THEN messages[j].buf.off + messages[j].len <= hist[j].ptr
              ELSE hist[j].ptr = hist[j].base

C10_Witness ==
  /\ PassDone
  /\ sequence_length >= 4
  /\ msg_cur_buf_ptr = sequence_length - 1

=============================================================================
